---------------------------- MODULE Spec2Model ----------------------------
(***************************************************************************)
(* Position-based JSON scanning primitives of dynamicgo's json package     *)
(* (skipString, skipNumber, skipPair, SkipValue, decodeInt64,              *)
(* decodeFloat64, DecodeValue) and the grow-and-retry string escaper       *)
(* quote.                                                                  *)
(*                                                                         *)
(* A buffer is a sequence of byte values (0..255).  Offsets are 0-based as *)
(* in the Go source: At(s, i) is s[i] and Slice(s, i, j) is s[i:j].        *)
(* 64-bit integer values are kept as sign + decimal magnitude, because the *)
(* values that matter here (around 2^63) do not fit the checker's          *)
(* integers.                                                               *)
(***************************************************************************)
EXTENDS Integers, Sequences, FiniteSets, TLC

VARIABLES
    src,    \* the input buffer of a scan
    pos,    \* the offset the scan is called with
    jv,     \* the JSON value text placed at pos when the input is generated
    res,    \* the result of the scan operation applied (op = "none" before)
    val,    \* quote: the input string
    buf,    \* quote: the contents of *buf (its logical length is Len(buf))
    cap,    \* quote: the capacity of *buf
    sp,     \* quote: offset in val of the first byte not yet consumed
    nb,     \* quote: number of input bytes left
    pc,     \* quote: position in the function
    buf0,   \* quote: the contents of *buf at the call
    calls   \* quote: number of native.Quote invocations

vars == <<src, pos, jv, res, val, buf, cap, sp, nb, pc, buf0, calls>>

scanVars == <<src, pos, jv, res>>
quoteVars == <<val, buf, cap, sp, nb, pc, buf0, calls>>

-----------------------------------------------------------------------------
(* Bounds of the explored input space.                                     *)

MaxLen == 6
MaxChunks == 3
MaxPos == 1
MaxWrap == 1
MaxDigits == 2
MaxTail == 2
MaxVal == 3
MaxPre == 1
MaxFree == 2
GrowSlack == 1

-----------------------------------------------------------------------------
(* Byte values named in the source.                                        *)

DQUOTE == 34
BSLASH == 92
LBRACE == 123
RBRACE == 125
LBRACK == 91
RBRACK == 93
MINUS == 45
PLUS == 43
DOT == 46
LOWER_E == 101
UPPER_E == 69
DIGIT0 == 48
DIGIT9 == 57
LOWER_N == 110
LOWER_T == 116
LOWER_F == 102
COMMA == 44
COLON == 58

(* Error kinds and value tags (internal/types).                            *)
ERR_EOF == 1
ERR_INVALID_CHAR == 2
ERR_INVALID_NUMBER_FMT == 6

V_NULL == 2
V_TRUE == 3
V_FALSE == 4
V_ARRAY == 5
V_OBJECT == 6
V_STRING == 7
V_DOUBLE == 8
V_INTEGER == 9

bytesNull == <<110, 117, 108, 108>>
bytesTrue == <<116, 114, 117, 101>>
bytesFalse == <<102, 97, 108, 115, 101>>

-----------------------------------------------------------------------------
(* Buffer access with the 0-based offsets of the source.                   *)

At(s, i) == s[i + 1]

Slice(s, i, j) == SubSeq(s, i + 1, j)

isSpace(c) == c \in {32, 9, 10, 13}

RECURSIVE SkipBlankLoop(_, _)
SkipBlankLoop(s, p) ==
    IF p < Len(s) /\ isSpace(At(s, p)) THEN SkipBlankLoop(s, p + 1) ELSE p

SkipBlank(s, p) ==
    LET q == SkipBlankLoop(s, p)
    IN  IF q >= Len(s) THEN -ERR_EOF ELSE q

-----------------------------------------------------------------------------
(* Fixed-literal decoders.                                                 *)

decodeNull(s, p) ==
    IF p + 4 > Len(s) THEN -ERR_EOF
    ELSE IF Slice(s, p, p + 4) = bytesNull THEN p + 4
    ELSE -ERR_INVALID_CHAR

decodeTrue(s, p) ==
    IF p + 4 > Len(s) THEN -ERR_EOF
    ELSE IF Slice(s, p, p + 4) = bytesTrue THEN p + 4
    ELSE -ERR_INVALID_CHAR

decodeFalse(s, p) ==
    IF p + 5 > Len(s) THEN -ERR_EOF
    ELSE IF Slice(s, p, p + 5) = bytesFalse THEN p + 5
    ELSE -ERR_INVALID_CHAR

isDigit(c) == c >= DIGIT0 /\ c <= DIGIT9

isNumberChars(c) ==
    \/ (c >= DIGIT0 /\ c <= DIGIT9)
    \/ c = PLUS \/ c = MINUS \/ c = LOWER_E \/ c = UPPER_E \/ c = DOT

-----------------------------------------------------------------------------
(* skipString: the scan loop carries (sp, ep) and stops at the first '"'   *)
(* met at a scan position, or when sp leaves the buffer.                   *)

RECURSIVE skipStringLoop(_, _, _)
skipStringLoop(s, p, ep) ==
    IF p >= Len(s) THEN [sp |-> p, ep |-> ep]
    ELSE LET c == At(s, p)
         IN  IF c = BSLASH
             THEN skipStringLoop(s, p + 2, IF ep = -1 THEN p ELSE ep)
             ELSE IF c = DQUOTE THEN [sp |-> p + 1, ep |-> ep]
             ELSE skipStringLoop(s, p + 1, ep)

(* Fault variant: the check of sp against the buffer end is missing.      *)
skipString_NoEndCheck(s, p) ==
    IF p + 1 >= Len(s) THEN [ret |-> -ERR_EOF, ep |-> -1]
    ELSE IF At(s, p) # DQUOTE THEN [ret |-> -ERR_INVALID_CHAR, ep |-> -1]
    ELSE LET r == skipStringLoop(s, p + 1, -1)
         IN  [ret |-> r.sp, ep |-> r.ep]

skipString(s, p) ==
    IF p + 1 >= Len(s) THEN [ret |-> -ERR_EOF, ep |-> -1]
    ELSE IF At(s, p) # DQUOTE THEN [ret |-> -ERR_INVALID_CHAR, ep |-> -1]
    ELSE LET r == skipStringLoop(s, p + 1, -1)
         IN  IF r.sp > Len(s) THEN [ret |-> -ERR_EOF, ep |-> -1]
             ELSE [ret |-> r.sp, ep |-> r.ep]

-----------------------------------------------------------------------------
(* skipPair: the scan loop carries (sp, nbrace, inquote).                  *)

RECURSIVE skipPairLoop(_, _, _, _, _, _)
skipPairLoop(s, p, lchar, rchar, nbrace, inquote) ==
    IF p >= Len(s) THEN [sp |-> p, nbrace |-> nbrace]
    ELSE LET c == At(s, p)
         IN  IF c = BSLASH
             THEN skipPairLoop(s, p + 2, lchar, rchar, nbrace, inquote)
             ELSE IF c = DQUOTE
             THEN skipPairLoop(s, p + 1, lchar, rchar, nbrace, ~inquote)
             ELSE IF c = lchar
             THEN skipPairLoop(s, p + 1, lchar, rchar,
                               IF inquote THEN nbrace ELSE nbrace + 1, inquote)
             ELSE IF c = rchar /\ ~inquote
             THEN IF nbrace - 1 = 0
                  THEN [sp |-> p + 1, nbrace |-> 0]
                  ELSE skipPairLoop(s, p + 1, lchar, rchar, nbrace - 1, inquote)
             ELSE skipPairLoop(s, p + 1, lchar, rchar, nbrace, inquote)

(* Fault variant: an unclosed pair is reported as EOF.                     *)
skipPair_EofWhenOpen(s, p, lchar, rchar) ==
    IF p + 1 >= Len(s) THEN -ERR_EOF
    ELSE IF At(s, p) # lchar THEN -ERR_INVALID_CHAR
    ELSE LET r == skipPairLoop(s, p + 1, lchar, rchar, 1, FALSE)
         IN  IF r.nbrace # 0 THEN -ERR_EOF ELSE r.sp

skipPair(s, p, lchar, rchar) ==
    IF p + 1 >= Len(s) THEN -ERR_EOF
    ELSE IF At(s, p) # lchar THEN -ERR_INVALID_CHAR
    ELSE LET r == skipPairLoop(s, p + 1, lchar, rchar, 1, FALSE)
         IN  IF r.nbrace # 0 THEN -ERR_INVALID_CHAR ELSE r.sp

-----------------------------------------------------------------------------
(* skipNumber: ss is the offset after the optional '-'; the loop carries   *)
(* (sp, pointer, exponent, lastIsDigit, nextNeedDigit).  The loop result   *)
(* is either an error code (err # 0) or the offset where it stopped.       *)

RECURSIVE skipNumberLoop(_, _, _, _, _, _, _)
skipNumberLoop(s, p, ss, pointer, exponent, lastIsDigit, nextNeedDigit) ==
    IF p >= Len(s) THEN [err |-> 0, sp |-> p, nnd |-> nextNeedDigit]
    ELSE LET c == At(s, p)
         IN  IF isDigit(c)
             THEN skipNumberLoop(s, p + 1, ss, pointer, exponent, TRUE, FALSE)
             ELSE IF nextNeedDigit
             THEN [err |-> ERR_INVALID_CHAR, sp |-> p, nnd |-> nextNeedDigit]
             ELSE IF c = DOT
             THEN IF ~lastIsDigit \/ pointer \/ p = ss
                  THEN [err |-> ERR_INVALID_CHAR, sp |-> p, nnd |-> nextNeedDigit]
                  ELSE skipNumberLoop(s, p + 1, ss, TRUE, exponent, FALSE, TRUE)
             ELSE IF c = LOWER_E \/ c = UPPER_E
             THEN IF ~lastIsDigit \/ exponent
                  THEN [err |-> ERR_INVALID_CHAR, sp |-> p, nnd |-> nextNeedDigit]
                  ELSE IF p = Len(s) - 1
                  THEN [err |-> ERR_EOF, sp |-> p, nnd |-> nextNeedDigit]
                  ELSE skipNumberLoop(s, p + 1, ss, pointer, TRUE, FALSE, FALSE)
             ELSE IF c = MINUS \/ c = PLUS
             THEN IF At(s, p - 1) # LOWER_E /\ At(s, p - 1) # UPPER_E
                  THEN [err |-> ERR_INVALID_CHAR, sp |-> p, nnd |-> nextNeedDigit]
                  ELSE skipNumberLoop(s, p + 1, ss, pointer, exponent, FALSE, TRUE)
             ELSE [err |-> 0, sp |-> p, nnd |-> nextNeedDigit]

skipNumber(s, p) ==
    IF p >= Len(s) THEN -ERR_EOF
    ELSE LET ss == IF At(s, p) = MINUS THEN p + 1 ELSE p
             r == skipNumberLoop(s, ss, ss, FALSE, FALSE, FALSE, TRUE)
         IN  IF r.err # 0 THEN -r.err
             ELSE IF r.nnd THEN -ERR_EOF
             ELSE r.sp

-----------------------------------------------------------------------------
(* SkipValue returns (ret, start).                                         *)

(* Fault variant: '[' is dispatched with the delimiters of '{'.            *)
SkipValue_BracketAsBrace(s, p0) ==
    LET p == SkipBlank(s, p0)
    IN  IF p < 0 THEN [ret |-> p, start |-> -1]
        ELSE LET c == At(s, p)
                 r == IF c = LOWER_N THEN decodeNull(s, p)
                      ELSE IF c = DQUOTE THEN skipString(s, p).ret
                      ELSE IF c = LBRACE THEN skipPair(s, p, LBRACE, RBRACE)
                      ELSE IF c = LBRACK THEN skipPair(s, p, LBRACE, RBRACE)
                      ELSE IF c = LOWER_T THEN decodeTrue(s, p)
                      ELSE IF c = LOWER_F THEN decodeFalse(s, p)
                      ELSE IF c = MINUS \/ c = PLUS \/ isDigit(c)
                      THEN skipNumber(s, p)
                      ELSE -ERR_INVALID_CHAR
             IN  [ret |-> r, start |-> p]

SkipValue(s, p0) ==
    LET p == SkipBlank(s, p0)
    IN  IF p < 0 THEN [ret |-> p, start |-> -1]
        ELSE LET c == At(s, p)
                 r == IF c = LOWER_N THEN decodeNull(s, p)
                      ELSE IF c = DQUOTE THEN skipString(s, p).ret
                      ELSE IF c = LBRACE THEN skipPair(s, p, LBRACE, RBRACE)
                      ELSE IF c = LBRACK THEN skipPair(s, p, LBRACK, RBRACK)
                      ELSE IF c = LOWER_T THEN decodeTrue(s, p)
                      ELSE IF c = LOWER_F THEN decodeFalse(s, p)
                      ELSE IF c = MINUS \/ c = PLUS \/ isDigit(c)
                      THEN skipNumber(s, p)
                      ELSE -ERR_INVALID_CHAR
             IN  [ret |-> r, start |-> p]

-----------------------------------------------------------------------------
(* Decimal digit strings (most significant digit first).                   *)

RECURSIVE DigitRunEnd(_, _)
DigitRunEnd(s, p) ==
    IF p < Len(s) /\ isDigit(At(s, p)) THEN DigitRunEnd(s, p + 1) ELSE p

RECURSIVE NumberCharsEnd(_, _)
NumberCharsEnd(s, p) ==
    IF p < Len(s) /\ isNumberChars(At(s, p)) THEN NumberCharsEnd(s, p + 1) ELSE p

DigitVals(s) == [i \in 1..Len(s) |-> s[i] - DIGIT0]

RECURSIVE StripZeros(_)
StripZeros(d) ==
    IF d # <<>> /\ Head(d) = 0 THEN StripZeros(Tail(d)) ELSE d

RECURSIVE StripTrailingZeros(_)
StripTrailingZeros(d) ==
    IF d # <<>> /\ d[Len(d)] = 0
    THEN StripTrailingZeros(SubSeq(d, 1, Len(d) - 1)) ELSE d

(* Lexicographic comparison from digit i on, the shorter string padded     *)
(* with zeros: -1, 0 or 1.                                                 *)
RECURSIVE LexCmp(_, _, _)
LexCmp(a, b, i) ==
    IF i > Len(a) /\ i > Len(b) THEN 0
    ELSE LET x == IF i <= Len(a) THEN a[i] ELSE 0
             y == IF i <= Len(b) THEN b[i] ELSE 0
         IN  IF x < y THEN -1 ELSE IF x > y THEN 1 ELSE LexCmp(a, b, i + 1)

(* Comparison of two magnitudes without leading zeros.                     *)
MagCmp(a, b) ==
    IF Len(a) < Len(b) THEN -1
    ELSE IF Len(a) > Len(b) THEN 1
    ELSE LexCmp(a, b, 1)

(* 2^63 - 1 and 2^63.                                                      *)
MaxInt64Mag == <<9,2,2,3,3,7,2,0,3,6,8,5,4,7,7,5,8,0,7>>
MinInt64Mag == <<9,2,2,3,3,7,2,0,3,6,8,5,4,7,7,5,8,0,8>>

(* An int64 value: sign and magnitude; zero has the empty magnitude.       *)
Int64Zero == [neg |-> FALSE, mag |-> <<>>]

RECURSIVE NatDigits(_)
NatDigits(n) == IF n = 0 THEN <<>> ELSE Append(NatDigits(n \div 10), n % 10)

(* The int64 value of a non-negative offset.                               *)
Int64Of(n) == [neg |-> FALSE, mag |-> NatDigits(n)]

(* strconv.ParseInt(vv, 10, 64): optional sign, at least one digit, only   *)
(* digits; ErrRange when the value does not fit 64 bits.                   *)
ParseIntMag(neg, mag) ==
    IF MagCmp(mag, IF neg THEN MinInt64Mag ELSE MaxInt64Mag) > 0
    THEN [v |-> [neg |-> neg,
                 mag |-> IF neg THEN MinInt64Mag ELSE MaxInt64Mag],
          err |-> "ErrRange"]
    ELSE [v |-> [neg |-> neg /\ mag # <<>>, mag |-> mag], err |-> "nil"]

ParseIntDigits(neg, digs) ==
    IF digs = <<>> \/ \E i \in 1..Len(digs) : ~isDigit(digs[i])
    THEN [v |-> Int64Zero, err |-> "ErrSyntax"]
    ELSE ParseIntMag(neg, StripZeros(DigitVals(digs)))

ParseInt(vv) ==
    IF vv # <<>> /\ (vv[1] = MINUS \/ vv[1] = PLUS)
    THEN ParseIntDigits(vv[1] = MINUS, Tail(vv))
    ELSE ParseIntDigits(FALSE, vv)

(* decodeInt64 returns (ret, v, err).  r is the result of ParseInt on the  *)
(* span that ends at offset ret.                                           *)
(* Fault variant: a range error is treated like any other parse error.    *)
decodeInt64Parsed_RangeIsError(ret, r) ==
    IF r.err # "nil"
    THEN [ret |-> -ERR_INVALID_CHAR, v |-> Int64Zero, err |-> r.err]
    ELSE [ret |-> ret, v |-> r.v, err |-> "nil"]

decodeInt64Parsed(ret, r) ==
    IF r.err = "ErrRange"
    THEN [ret |-> ret, v |-> Int64Zero, err |-> r.err]
    ELSE IF r.err # "nil"
    THEN [ret |-> -ERR_INVALID_CHAR, v |-> Int64Zero, err |-> r.err]
    ELSE [ret |-> ret, v |-> r.v, err |-> "nil"]

(* sp2 is the offset where the digit loop stopped.                         *)
decodeInt64Run(s, p, sp2) ==
    IF sp2 < Len(s) /\ At(s, sp2) \in {DOT, LOWER_E, UPPER_E}
    THEN [ret |-> -ERR_INVALID_NUMBER_FMT, v |-> Int64Zero, err |-> "nil"]
    ELSE decodeInt64Parsed(sp2, ParseInt(Slice(s, p, sp2)))

(* sp1 is the offset after the optional '-'.                               *)
decodeInt64From(s, p, sp1) ==
    IF sp1 >= Len(s)
    THEN [ret |-> -ERR_EOF, v |-> Int64Zero, err |-> "nil"]
    ELSE decodeInt64Run(s, p, DigitRunEnd(s, sp1))

decodeInt64(s, p) ==
    IF p >= Len(s) THEN [ret |-> -ERR_EOF, v |-> Int64Zero, err |-> "nil"]
    ELSE decodeInt64From(s, p, IF At(s, p) = MINUS THEN p + 1 ELSE p)

-----------------------------------------------------------------------------
(* A float64 value is kept as the exact decimal the literal denotes: sign, *)
(* significant digits and power of ten (binary rounding is not modelled).  *)

Float64Zero == [neg |-> FALSE, mant |-> <<>>, exp |-> 0]

FloatSyntaxError == [v |-> Float64Zero, err |-> "ErrSyntax"]

(* Leading digits of 2^1024 - 2^970, the smallest magnitude that rounds to *)
(* infinity.                                                               *)
Float64OverflowMant == <<1,7,9,7,6,9,3,1,3,4,8,6,2,3,1,5,8,0,7,9>>
Float64OverflowExp == 308

(* Exponent accumulation of strconv's readFloat, capped as there.          *)
RECURSIVE ExpVal(_, _)
ExpVal(d, acc) ==
    IF d = <<>> THEN acc
    ELSE ExpVal(Tail(d), IF acc < 10000 THEN acc * 10 + Head(d) ELSE acc)

(* strconv.ParseFloat(vv, 64) on decimal input: optional sign, digits with *)
(* at most one '.', at least one digit, optional exponent with optional    *)
(* sign and at least one digit, nothing after; ErrRange on overflow.       *)
(* The stages pass on: the digits before and after the point (intDigs,     *)
(* fracDigs), the significant digits without leading zeros (lead), the     *)
(* power of ten of the last digit (pe).                                    *)
FloatNorm(neg, mant, leadLen, pe) ==
    [v |-> [neg |-> neg, mant |-> mant,
            exp |-> IF mant = <<>> THEN 0 ELSE pe + (leadLen - Len(mant))],
     err |-> "nil"]

FloatRange(neg, lead, pe) ==
    IF /\ lead # <<>>
       /\ \/ Len(lead) - 1 + pe > Float64OverflowExp
          \/ /\ Len(lead) - 1 + pe = Float64OverflowExp
             /\ LexCmp(lead, Float64OverflowMant, 1) >= 0
    THEN [v |-> Float64Zero, err |-> "ErrRange"]
    ELSE FloatNorm(neg, StripTrailingZeros(lead), Len(lead), pe)

FloatValue(neg, intDigs, fracDigs, e) ==
    FloatRange(neg, StripZeros(intDigs \o fracDigs), e - Len(fracDigs))

ReadExpDigits(vv, neg, intDigs, fracDigs, eneg, e2) ==
    IF DigitRunEnd(vv, e2) = e2 \/ DigitRunEnd(vv, e2) # Len(vv)
    THEN FloatSyntaxError
    ELSE FloatValue(neg, intDigs, fracDigs,
                    IF eneg
                    THEN -ExpVal(DigitVals(Slice(vv, e2, Len(vv))), 0)
                    ELSE ExpVal(DigitVals(Slice(vv, e2, Len(vv))), 0))

ReadExp(vv, neg, intDigs, fracDigs, mEnd) ==
    IF Len(intDigs) + Len(fracDigs) = 0 THEN FloatSyntaxError
    ELSE IF mEnd < Len(vv) /\ At(vv, mEnd) \in {LOWER_E, UPPER_E}
    THEN IF mEnd + 1 < Len(vv) /\ At(vv, mEnd + 1) \in {MINUS, PLUS}
         THEN ReadExpDigits(vv, neg, intDigs, fracDigs,
                            At(vv, mEnd + 1) = MINUS, mEnd + 2)
         ELSE ReadExpDigits(vv, neg, intDigs, fracDigs, FALSE, mEnd + 1)
    ELSE IF mEnd # Len(vv) THEN FloatSyntaxError
    ELSE FloatValue(neg, intDigs, fracDigs, 0)

ReadFrac(vv, neg, i0, intEnd) ==
    IF intEnd < Len(vv) /\ At(vv, intEnd) = DOT
    THEN ReadExp(vv, neg, DigitVals(Slice(vv, i0, intEnd)),
                 DigitVals(Slice(vv, intEnd + 1, DigitRunEnd(vv, intEnd + 1))),
                 DigitRunEnd(vv, intEnd + 1))
    ELSE ReadExp(vv, neg, DigitVals(Slice(vv, i0, intEnd)), <<>>, intEnd)

ReadMantissa(vv, neg, i0) == ReadFrac(vv, neg, i0, DigitRunEnd(vv, i0))

ParseFloat(vv) ==
    IF vv # <<>> /\ (vv[1] = MINUS \/ vv[1] = PLUS)
    THEN ReadMantissa(vv, vv[1] = MINUS, 1)
    ELSE ReadMantissa(vv, FALSE, 0)

(* decodeFloat64 returns (ret, v, err).                                    *)
decodeFloat64Parsed(ret, r) ==
    IF r.err = "ErrRange"
    THEN [ret |-> ret, v |-> Float64Zero, err |-> r.err]
    ELSE IF r.err # "nil"
    THEN [ret |-> -ERR_INVALID_CHAR, v |-> Float64Zero, err |-> r.err]
    ELSE [ret |-> ret, v |-> r.v, err |-> "nil"]

decodeFloat64Run(s, p, sp2) ==
    decodeFloat64Parsed(sp2, ParseFloat(Slice(s, p, sp2)))

decodeFloat64From(s, p, sp1) ==
    IF sp1 = Len(s)
    THEN [ret |-> -ERR_EOF, v |-> Float64Zero, err |-> "nil"]
    ELSE decodeFloat64Run(s, p, NumberCharsEnd(s, sp1))

decodeFloat64(s, p) ==
    IF p >= Len(s) THEN [ret |-> -ERR_EOF, v |-> Float64Zero, err |-> "nil"]
    ELSE decodeFloat64From(s, p, IF At(s, p) = MINUS THEN p + 1 ELSE p)

-----------------------------------------------------------------------------
(* DecodeValue returns (ret, JsonState).  The field calls lists the number *)
(* decoders it invoked, in order.                                          *)

JsonState(vt, iv, dv, ep) == [Vt |-> vt, Iv |-> iv, Dv |-> dv, Ep |-> ep]

ErrState(code) == JsonState(code, Int64Zero, Float64Zero, 0)

(* f is the result of decodeFloat64.                                       *)
DecodeNumberFloat(p, f) ==
    IF f.ret >= 0
    THEN [ret |-> f.ret, v |-> JsonState(V_DOUBLE, Int64Zero, f.v, p),
          calls |-> <<"decodeInt64", "decodeFloat64">>]
    ELSE [ret |-> f.ret, v |-> ErrState(f.ret),
          calls |-> <<"decodeInt64", "decodeFloat64">>]

(* i is the result of decodeInt64.                                         *)
(* Fault variant: every integer-decode error is retried as float.          *)
DecodeNumberInt_AlwaysRetry(s, p, i) ==
    IF i.ret >= 0
    THEN [ret |-> i.ret, v |-> JsonState(V_INTEGER, i.v, Float64Zero, p),
          calls |-> <<"decodeInt64">>]
    ELSE DecodeNumberFloat(p, decodeFloat64(s, p))

DecodeNumberInt(s, p, i) ==
    IF i.ret >= 0
    THEN [ret |-> i.ret, v |-> JsonState(V_INTEGER, i.v, Float64Zero, p),
          calls |-> <<"decodeInt64">>]
    ELSE IF i.ret # -ERR_INVALID_NUMBER_FMT
    THEN [ret |-> i.ret, v |-> ErrState(i.ret), calls |-> <<"decodeInt64">>]
    ELSE DecodeNumberFloat(p, decodeFloat64(s, p))

DecodeNumber(s, p) == DecodeNumberInt(s, p, decodeInt64(s, p))

DecodeLiteral(r, vt) ==
    IF r < 0 THEN [ret |-> r, v |-> ErrState(r), calls |-> <<>>]
    ELSE [ret |-> r, v |-> JsonState(vt, Int64Zero, Float64Zero, 0),
          calls |-> <<>>]

(* r is the result of skipString.                                          *)
DecodeString(p, r) ==
    IF r.ret < 0 THEN [ret |-> r.ret, v |-> ErrState(r.ret), calls |-> <<>>]
    ELSE [ret |-> r.ret,
          v |-> JsonState(V_STRING, Int64Of(p + 1), Float64Zero, r.ep),
          calls |-> <<>>]

(* p is the offset SkipBlank returned, c the byte there.                   *)
DecodeValueAt(s, p, c) ==
    IF c = LOWER_N THEN DecodeLiteral(decodeNull(s, p), V_NULL)
    ELSE IF c = DQUOTE THEN DecodeString(p, skipString(s, p))
    ELSE IF c = LBRACE
    THEN [ret |-> p + 1,
          v |-> JsonState(V_OBJECT, Int64Zero, Float64Zero, 0),
          calls |-> <<>>]
    ELSE IF c = LBRACK
    THEN [ret |-> p + 1,
          v |-> JsonState(V_ARRAY, Int64Zero, Float64Zero, 0),
          calls |-> <<>>]
    ELSE IF c = LOWER_T THEN DecodeLiteral(decodeTrue(s, p), V_TRUE)
    ELSE IF c = LOWER_F THEN DecodeLiteral(decodeFalse(s, p), V_FALSE)
    ELSE IF c = MINUS \/ c = PLUS \/ isDigit(c) THEN DecodeNumber(s, p)
    ELSE [ret |-> -ERR_INVALID_CHAR, v |-> ErrState(-ERR_INVALID_CHAR),
          calls |-> <<>>]

DecodeValueFrom(s, p) ==
    IF p < 0 THEN [ret |-> p, v |-> ErrState(p), calls |-> <<>>]
    ELSE DecodeValueAt(s, p, At(s, p))

DecodeValue(s, p0) == DecodeValueFrom(s, SkipBlank(s, p0))

-----------------------------------------------------------------------------
(* The string escaper.  native.Quote escapes the longest prefix of the     *)
(* input whose escaped form fits the free space dn; it returns the number  *)
(* of input bytes when all were consumed, and the complement of the number *)
(* consumed otherwise, with the bytes written.                             *)

HexDigit(n) == IF n < 10 THEN DIGIT0 + n ELSE 97 + (n - 10)

EscapeOf(c) ==
    IF c = DQUOTE THEN <<BSLASH, DQUOTE>>
    ELSE IF c = BSLASH THEN <<BSLASH, BSLASH>>
    ELSE IF c = 10 THEN <<BSLASH, 110>>
    ELSE IF c = 13 THEN <<BSLASH, 114>>
    ELSE IF c = 9 THEN <<BSLASH, 116>>
    ELSE IF c < 32
    THEN <<BSLASH, 117, DIGIT0, DIGIT0, HexDigit(c \div 16), HexDigit(c % 16)>>
    ELSE <<c>>

RECURSIVE NativeQuoteLoop(_, _, _, _)
NativeQuoteLoop(in, i, free, out) ==
    IF i >= Len(in) THEN [consumed |-> i, out |-> out]
    ELSE LET esc == EscapeOf(At(in, i))
         IN  IF Len(esc) > free THEN [consumed |-> i, out |-> out]
             ELSE NativeQuoteLoop(in, i + 1, free - Len(esc), out \o esc)

NativeQuote(in, dn) ==
    LET r == NativeQuoteLoop(in, 0, dn, <<>>)
    IN  [ret |-> IF r.consumed = Len(in) THEN r.consumed ELSE -r.consumed - 1,
         out |-> r.out]

Max(a, b) == IF a > b THEN a ELSE b
Min(a, b) == IF a < b THEN a ELSE b

(* Capacities append may leave after adding one byte to a slice of length  *)
(* n and capacity c: unchanged when the byte fits, else at least n + 1.    *)
AppendCaps(n, c) ==
    IF n < c THEN {c}
    ELSE Max(n + 1, 2 * c)..(Max(n + 1, 2 * c) + GrowSlack)

(* Capacities growslice may return for a requested capacity.               *)
GrowCaps(want) == want..(want + GrowSlack)

(* ret = ^ret; nb -= ret; sp += ret                                        *)
(* Fault variant: the input pointer is not advanced.                       *)
QuoteAdvance_KeepSp(spv, nbv, ret) ==
    [sp |-> spv, nb |-> nbv - (-ret - 1)]

QuoteAdvance(spv, nbv, ret) ==
    [sp |-> spv + (-ret - 1), nb |-> nbv - (-ret - 1)]

QuoteStart ==
    /\ pc = "start"
    /\ \E c1 \in AppendCaps(Len(buf), cap) :
         IF Len(val) = 0
         THEN \E c2 \in AppendCaps(Len(buf) + 1, c1) :
                /\ buf' = buf \o <<DQUOTE, DQUOTE>>
                /\ cap' = c2
         ELSE /\ buf' = Append(buf, DQUOTE)
              /\ cap' = c1
    /\ sp' = 0
    /\ nb' = Len(val)
    /\ pc' = "loop"
    /\ UNCHANGED <<val, buf0, calls>>
    /\ UNCHANGED scanVars

QuoteIter ==
    /\ pc = "loop"
    /\ nb > 0
    /\ LET r == NativeQuote(Slice(val, sp, sp + nb), cap - Len(buf))
       IN  /\ buf' = buf \o r.out
           /\ calls' = calls + 1
           /\ IF r.ret >= 0
              THEN /\ pc' = "tail"
                   /\ UNCHANGED <<cap, sp, nb>>
              ELSE /\ cap' \in GrowCaps(cap * 2)
                   /\ sp' = QuoteAdvance(sp, nb, r.ret).sp
                   /\ nb' = QuoteAdvance(sp, nb, r.ret).nb
                   /\ pc' = "loop"
    /\ UNCHANGED <<val, buf0>>
    /\ UNCHANGED scanVars

QuoteExit ==
    /\ pc = "loop"
    /\ nb <= 0
    /\ pc' = "tail"
    /\ UNCHANGED <<val, buf, cap, sp, nb, buf0, calls>>
    /\ UNCHANGED scanVars

QuoteTail ==
    /\ pc = "tail"
    /\ buf' = Append(buf, DQUOTE)
    /\ cap' \in AppendCaps(Len(buf), cap)
    /\ pc' = "done"
    /\ UNCHANGED <<val, sp, nb, buf0, calls>>
    /\ UNCHANGED scanVars

-----------------------------------------------------------------------------
(* Input spaces.                                                           *)

SeqsUpTo(A, n) == UNION {[1..k -> A] : k \in 0..n}

RECURSIVE Concat(_)
Concat(ss) == IF ss = <<>> THEN <<>> ELSE Head(ss) \o Concat(Tail(ss))

ScanIdle ==
    /\ val = <<>> /\ buf = <<>> /\ cap = 0 /\ sp = 0 /\ nb = 0
    /\ pc = "idle" /\ buf0 = <<>> /\ calls = 0

QuoteIdle ==
    /\ src = <<>> /\ pos = 0 /\ jv = <<>> /\ res = [op |-> "none"]

NoResult == [op |-> "none"]

StringAlphabet == {DQUOTE, BSLASH, 97}

InitString ==
    /\ src \in SeqsUpTo(StringAlphabet, MaxLen)
    /\ pos \in 0..Min(MaxPos, Len(src))
    /\ jv = <<>>
    /\ res = NoResult
    /\ ScanIdle

Pairs == {<<LBRACE, RBRACE>>, <<LBRACK, RBRACK>>}

PairAlphabet(pr) == {pr[1], pr[2], DQUOTE, BSLASH, 97}

InitPair ==
    /\ \E pr \in Pairs : src \in SeqsUpTo(PairAlphabet(pr), MaxLen)
    /\ pos \in 0..Min(MaxPos, Len(src))
    /\ jv = <<>>
    /\ res = NoResult
    /\ ScanIdle

NumberAlphabet == {49, MINUS, PLUS, DOT, LOWER_E, UPPER_E, COMMA}

InitNumber ==
    /\ src \in SeqsUpTo(NumberAlphabet, MaxLen)
    /\ pos \in 0..Min(MaxPos, Len(src))
    /\ jv = <<>>
    /\ res = NoResult
    /\ ScanIdle

Chunks ==
    {bytesNull, bytesTrue, bytesFalse, <<110, 117>>, <<DQUOTE>>, <<BSLASH>>,
     <<LBRACE>>, <<RBRACE>>, <<LBRACK>>, <<RBRACK>>, <<49>>, <<MINUS>>,
     <<LOWER_E>>, <<DOT>>, <<32>>}

InitSkip ==
    /\ \E cs \in SeqsUpTo(Chunks, MaxChunks) : src = Concat(cs)
    /\ pos \in 0..Min(MaxPos, Len(src))
    /\ jv = <<>>
    /\ res = NoResult
    /\ ScanIdle

-----------------------------------------------------------------------------
(* Texts of valid JSON values (RFC 8259), built from the grammar: atoms,   *)
(* then arrays and objects wrapped around smaller values.                  *)

JStr(content) == <<DQUOTE>> \o content \o <<DQUOTE>>

JsonNumbers ==
    {<<48>>, <<49>>, <<MINUS, 49>>, <<49, 48>>, <<49, DOT, 53>>,
     <<49, LOWER_E, 53>>, <<49, UPPER_E, PLUS, 53>>,
     <<MINUS, 48, DOT, 53, LOWER_E, MINUS, 49>>}

JsonStrings ==
    {JStr(<<>>), JStr(<<97>>), JStr(<<BSLASH, DQUOTE>>),
     JStr(<<BSLASH, BSLASH>>), JStr(<<RBRACK>>), JStr(<<RBRACE>>),
     JStr(<<LBRACK>>), JStr(<<LBRACE>>)}

JsonAtoms == {bytesNull, bytesTrue, bytesFalse} \cup JsonNumbers \cup JsonStrings

JsonSiblings == {<<49>>, bytesNull, JStr(<<RBRACK>>), JStr(<<BSLASH, DQUOTE>>)}

JsonKeys == {JStr(<<97>>), JStr(<<RBRACE>>)}

JsonWraps(v) ==
    {<<LBRACK>> \o v \o <<RBRACK>>,
     <<LBRACK, 32>> \o v \o <<32, RBRACK>>}
    \cup {<<LBRACK>> \o a \o <<COMMA>> \o v \o <<RBRACK>> : a \in JsonSiblings}
    \cup {<<LBRACK>> \o v \o <<COMMA>> \o a \o <<RBRACK>> : a \in JsonSiblings}
    \cup {<<LBRACE>> \o k \o <<COLON>> \o v \o <<RBRACE>> : k \in JsonKeys}

RECURSIVE JsonValues(_)
JsonValues(d) ==
    IF d = 0
    THEN JsonAtoms \cup {<<LBRACK, RBRACK>>, <<LBRACE, RBRACE>>}
    ELSE LET prev == JsonValues(d - 1)
         IN  prev \cup UNION {JsonWraps(v) : v \in prev}

FollowBytes ==
    {<<>>, <<COMMA>>, <<RBRACK>>, <<RBRACE>>, <<32>>, <<DQUOTE>>, <<COLON>>,
     <<120>>, <<49>>, <<MINUS>>, <<PLUS>>, <<DOT>>, <<LOWER_E>>, <<UPPER_E>>,
     <<LOWER_E, COMMA>>, <<COMMA, 49>>}

InitValue ==
    /\ jv \in JsonValues(MaxWrap)
    /\ \E pre \in {<<>>, <<COMMA>>}, fol \in FollowBytes :
         /\ src = pre \o jv \o fol
         /\ pos = Len(pre)
    /\ res = NoResult
    /\ ScanIdle

-----------------------------------------------------------------------------
(* Number tokens around the ends of the int64 range, and literals.         *)

Int64Edge == <<57, 50, 50, 51, 51, 55, 50, 48, 51, 54, 56, 53, 52, 55, 55, 53, 56, 48>>

LongRuns ==
    {Int64Edge \o <<d>> : d \in {55, 56, 57}}
    \cup {<<48>> \o Int64Edge \o <<55>>, Int64Edge \o <<48, 48>>}

DigitRuns == SeqsUpTo({48, 49, 57}, MaxDigits) \cup LongRuns

NumberTails ==
    SeqsUpTo({DOT, LOWER_E, MINUS, 53, COMMA}, MaxTail)
    \cup {<<LOWER_E, 57, 57, 57>>, <<DOT, 53, LOWER_E, 49, 48>>,
          <<UPPER_E, PLUS, 53>>, <<LOWER_E, 51, 48, 56>>,
          <<DOT, 56, LOWER_E, 51, 48, 56>>}

NumberTokens ==
    {sg \o d \o t : sg \in {<<>>, <<MINUS>>, <<PLUS>>}, d \in DigitRuns,
                    t \in NumberTails}

LiteralTokens ==
    UNION {{SubSeq(l, 1, k) \o t : k \in 1..Len(l),
                                   t \in {<<>>, <<COMMA>>, <<120>>}} :
           l \in {bytesNull, bytesTrue, bytesFalse}}

InitDecode ==
    /\ \E pre \in {<<>>, <<32>>}, tok \in NumberTokens \cup LiteralTokens :
         /\ src = pre \o tok
         /\ pos \in 0..Len(pre)
    /\ jv = <<>>
    /\ res = NoResult
    /\ ScanIdle

QuoteAlphabet == {97, DQUOTE, BSLASH, 1}

InitQuote ==
    /\ val \in SeqsUpTo(QuoteAlphabet, MaxVal)
    /\ buf0 \in SeqsUpTo({120}, MaxPre)
    /\ buf = buf0
    /\ cap \in Len(buf0)..(Len(buf0) + MaxFree)
    /\ sp = 0
    /\ nb = 0
    /\ pc = "start"
    /\ calls = 0
    /\ QuoteIdle

-----------------------------------------------------------------------------
(* One action per scan operation: it is applied to the input once.         *)

DoSkipString ==
    /\ res.op = "none"
    /\ LET r == skipString(src, pos)
       IN  res' = [op |-> "skipString", ret |-> r.ret, ep |-> r.ep]
    /\ UNCHANGED <<src, pos, jv>>
    /\ UNCHANGED quoteVars

DoSkipPair ==
    /\ res.op = "none"
    /\ \E pr \in Pairs :
         res' = [op |-> "skipPair", lchar |-> pr[1], rchar |-> pr[2],
                 ret |-> skipPair(src, pos, pr[1], pr[2])]
    /\ UNCHANGED <<src, pos, jv>>
    /\ UNCHANGED quoteVars

DoSkipNumber ==
    /\ res.op = "none"
    /\ res' = [op |-> "skipNumber", ret |-> skipNumber(src, pos)]
    /\ UNCHANGED <<src, pos, jv>>
    /\ UNCHANGED quoteVars

DoSkipValue ==
    /\ res.op = "none"
    /\ LET r == SkipValue(src, pos)
       IN  res' = [op |-> "SkipValue", ret |-> r.ret, start |-> r.start]
    /\ UNCHANGED <<src, pos, jv>>
    /\ UNCHANGED quoteVars

DoDecodeInt64 ==
    /\ res.op = "none"
    /\ LET r == decodeInt64(src, pos)
       IN  res' = [op |-> "decodeInt64", ret |-> r.ret, v |-> r.v,
                   err |-> r.err]
    /\ UNCHANGED <<src, pos, jv>>
    /\ UNCHANGED quoteVars

DoDecodeFloat64 ==
    /\ res.op = "none"
    /\ LET r == decodeFloat64(src, pos)
       IN  res' = [op |-> "decodeFloat64", ret |-> r.ret, v |-> r.v,
                   err |-> r.err]
    /\ UNCHANGED <<src, pos, jv>>
    /\ UNCHANGED quoteVars

DoDecodeValue ==
    /\ res.op = "none"
    /\ LET r == DecodeValue(src, pos)
       IN  res' = [op |-> "DecodeValue", ret |-> r.ret, v |-> r.v,
                   calls |-> r.calls]
    /\ UNCHANGED <<src, pos, jv>>
    /\ UNCHANGED quoteVars

-----------------------------------------------------------------------------
(* Specifications.                                                         *)

NextString == DoSkipString \/ DoDecodeValue
SpecString == InitString /\ [][NextString]_vars

NextPair == DoSkipPair
SpecPair == InitPair /\ [][NextPair]_vars

NextNumber == DoSkipNumber
SpecNumber == InitNumber /\ [][NextNumber]_vars

NextSkip == DoSkipValue
SpecSkip == InitSkip /\ [][NextSkip]_vars

NextValue == DoSkipValue
SpecValue == InitValue /\ [][NextValue]_vars

NextDecode == DoDecodeInt64 \/ DoDecodeFloat64 \/ DoDecodeValue
SpecDecode == InitDecode /\ [][NextDecode]_vars

NextQuote == QuoteStart \/ QuoteIter \/ QuoteExit \/ QuoteTail
SpecQuote == InitQuote /\ [][NextQuote]_vars
FairSpecQuote == SpecQuote /\ WF_vars(NextQuote)

Init ==
    \/ InitString \/ InitPair \/ InitNumber \/ InitSkip \/ InitValue
    \/ InitDecode \/ InitQuote

Next ==
    \/ DoSkipString \/ DoSkipPair \/ DoSkipNumber \/ DoSkipValue
    \/ DoDecodeInt64 \/ DoDecodeFloat64 \/ DoDecodeValue
    \/ QuoteStart \/ QuoteIter \/ QuoteExit \/ QuoteTail

Spec == Init /\ [][Next]_vars

-----------------------------------------------------------------------------
(* Notions the properties are stated with.                                 *)

SetMin(S) == CHOOSE x \in S : \A y \in S : x <= y

(* Offset i > p is a scan position of an escape-aware scan that starts at  *)
(* p + 1: it is not the byte that follows an escape-introducing backslash. *)
RECURSIVE ScanPos(_, _, _)
ScanPos(s, p, i) ==
    \/ i = p + 1
    \/ i > p + 1 /\ At(s, i - 1) # BSLASH /\ ScanPos(s, p, i - 1)
    \/ i > p + 2 /\ At(s, i - 2) = BSLASH /\ ScanPos(s, p, i - 2)

(* Offsets after p holding a '"' that is not escaped.                      *)
UnescapedQuotes(s, p) ==
    {i \in (p + 1)..(Len(s) - 1) : At(s, i) = DQUOTE /\ ScanPos(s, p, i)}

(* Offset i lies inside a quoted string of the pair opened at p.           *)
InQuote(s, p, i) ==
    Cardinality({j \in UnescapedQuotes(s, p) : j < i}) % 2 = 1

(* Nesting depth of the pair opened at p after the bytes before offset k.  *)
Nesting(s, p, l, r, k) ==
    1 + Cardinality({i \in (p + 1)..(k - 1) :
                       ScanPos(s, p, i) /\ At(s, i) = l /\ ~InQuote(s, p, i)})
      - Cardinality({i \in (p + 1)..(k - 1) :
                       ScanPos(s, p, i) /\ At(s, i) = r /\ ~InQuote(s, p, i)})

(* The nesting depth of the pair opened at p reaches 0 inside the buffer.  *)
Balanced(s, p, l, r) ==
    \E k \in (p + 2)..Len(s) : Nesting(s, p, l, r, k) = 0

(* t is: optional '-', digits, optional '.' digits, optional exponent      *)
(* marker with optional sign and digits (each digit run non-empty).        *)
MatchesNumberGrammar(t) ==
    LET n == Len(t)
        a == IF n > 0 /\ t[1] = MINUS THEN 1 ELSE 0
        b == DigitRunEnd(t, a)
        hasDot == b < n /\ At(t, b) = DOT
        c == IF hasDot THEN DigitRunEnd(t, b + 1) ELSE b
        hasExp == c < n /\ At(t, c) \in {LOWER_E, UPPER_E}
        d0 == c + 1
        d1 == IF hasExp /\ d0 < n /\ At(t, d0) \in {PLUS, MINUS}
              THEN d0 + 1 ELSE d0
        d == IF hasExp THEN DigitRunEnd(t, d1) ELSE c
    IN  /\ b > a
        /\ hasDot => c > b + 1
        /\ hasExp => d > d1
        /\ d = n

IsNumberText(t) == t # <<>> /\ (t[1] = MINUS \/ isDigit(t[1]))

NumberStart(c) == c = MINUS \/ c = PLUS \/ isDigit(c)

(* Offset after the optional '-' of the token at p.                        *)
AfterSign(s, p) == IF At(s, p) = MINUS THEN p + 1 ELSE p

(* The digit run of the token at p is immediately followed by '.', 'e' or  *)
(* 'E'.                                                                    *)
FollowedByMarker(s, p) ==
    \E b \in AfterSign(s, p)..(Len(s) - 1) :
       /\ \A k \in AfterSign(s, p)..(b - 1) : isDigit(At(s, k))
       /\ At(s, b) \in {DOT, LOWER_E, UPPER_E}

(* The token at p is an optional '-' and a non-empty digit run whose value *)
(* is outside the signed 64-bit range, not followed by '.', 'e' or 'E'.    *)
OverflowToken(s, p) ==
    /\ p >= 0 /\ p < Len(s)
    /\ AfterSign(s, p) < Len(s)
    /\ LET a == AfterSign(s, p)
           b == DigitRunEnd(s, a)
       IN  /\ b > a
           /\ ~FollowedByMarker(s, p)
           /\ MagCmp(StripZeros(DigitVals(Slice(s, a, b))),
                     IF a > p THEN MinInt64Mag ELSE MaxInt64Mag) > 0

(* What quote appends when one native.Quote call consumes the whole input. *)
EscapeAll(v) == NativeQuote(v, 6 * Len(v)).out

QuoteOpen(v) == IF Len(v) = 0 THEN <<DQUOTE, DQUOTE>> ELSE <<DQUOTE>>

QuoteLarge(b0, v) == b0 \o QuoteOpen(v) \o EscapeAll(v) \o <<DQUOTE>>

-----------------------------------------------------------------------------
(* Properties.                                                             *)

(* C1, as stated: for every valid JSON value jv placed at offset pos,      *)
(* whatever follows it, SkipValue returns start = pos and the end offset   *)
(* one past the last byte of jv.                                           *)
C1_AnyFollower ==
    (res.op = "SkipValue" /\ jv # <<>>)
        => (res.start = pos /\ res.ret = pos + Len(jv)
            /\ Slice(src, pos, res.ret) = jv)

(* C1, amended: the same, provided that a number is followed by the end of *)
(* input or by a byte that is not a number character (digit, '+', '-',     *)
(* '.', 'e', 'E').                                                         *)
C1_SkipValueSpan ==
    (/\ res.op = "SkipValue"
     /\ jv # <<>>
     /\ IsNumberText(jv) =>
           \/ pos + Len(jv) = Len(src)
           \/ ~isNumberChars(At(src, pos + Len(jv))))
        => (res.start = pos /\ res.ret = pos + Len(jv)
            /\ Slice(src, pos, res.ret) = jv)

C1_Witness ==
    /\ res.op = "SkipValue"
    /\ Len(jv) >= 5
    /\ jv[1] = LBRACK
    /\ \E i \in 2..(Len(jv) - 2) : jv[i] = DQUOTE /\ jv[i + 1] = RBRACK
    /\ pos + Len(jv) < Len(src)
    /\ res.ret = pos + Len(jv)

(* C2: quote terminates, and throughout the grow-and-retry cycles the      *)
(* length stays within the capacity, the bytes present at the call are     *)
(* kept, the output so far is the escaped form of exactly the consumed     *)
(* input prefix, and the final output equals the one-call output.          *)
QuoteSafe ==
    /\ Len(buf) <= cap
    /\ pc # "idle" => SubSeq(buf, 1, Len(buf0)) = buf0
    /\ pc = "loop" =>
          /\ sp + nb = Len(val)
          /\ sp >= 0 /\ nb >= 0
          /\ buf = buf0 \o QuoteOpen(val) \o EscapeAll(Slice(val, 0, sp))
    /\ pc = "done" => buf = QuoteLarge(buf0, val)

C2_QuoteRetryEquivalent == []QuoteSafe /\ <>(pc = "done")

C2_Witness ==
    /\ pc = "done"
    /\ calls >= 3
    /\ Len(val) >= 2
    /\ buf = QuoteLarge(buf0, val)

(* C3: on the empty input quote appends exactly the two bytes `""` and     *)
(* never invokes the escaper.                                              *)
C3_EmptyString ==
    (pc = "done" /\ val = <<>>)
        => (buf = buf0 \o <<DQUOTE, DQUOTE>> /\ calls = 0)

(* C4: on a token starting with a digit, '-' or '+' DecodeValue runs       *)
(* decodeInt64 first; it returns an Integer state whenever that succeeds,  *)
(* runs decodeFloat64 exactly when decodeInt64 reports InvalidNumberFormat *)
(* (digit run followed by '.', 'e' or 'E') and then returns a Double state *)
(* on success, and returns any other integer error unchanged.  On the      *)
(* literals null, true, false it returns the literal's tag and the offset  *)
(* just past the literal.                                                  *)
C4_DecodeValueDispatch ==
    res.op = "DecodeValue" =>
        LET p == SkipBlank(src, pos)
        IN  /\ (p >= 0 /\ NumberStart(At(src, p))) =>
                  LET i == decodeInt64(src, p)
                      f == decodeFloat64(src, p)
                      retried == \E k \in 1..Len(res.calls) :
                                    res.calls[k] = "decodeFloat64"
                  IN  /\ Len(res.calls) >= 1 /\ res.calls[1] = "decodeInt64"
                      /\ i.ret >= 0 =>
                            /\ res.ret = i.ret
                            /\ res.v.Vt = V_INTEGER
                            /\ res.v.Iv = i.v
                      /\ retried <=> i.ret = -ERR_INVALID_NUMBER_FMT
                      /\ i.ret = -ERR_INVALID_NUMBER_FMT <=>
                            FollowedByMarker(src, p)
                      /\ (retried /\ f.ret >= 0) =>
                            /\ res.ret = f.ret
                            /\ res.v.Vt = V_DOUBLE
                            /\ res.v.Dv = f.v
                      /\ (retried /\ f.ret < 0) =>
                            /\ res.ret = f.ret
                            /\ res.v.Vt = f.ret
                      /\ (i.ret < 0 /\ i.ret # -ERR_INVALID_NUMBER_FMT) =>
                            /\ res.ret = i.ret
                            /\ res.v.Vt = i.ret
            /\ (p >= 0 /\ p + 4 <= Len(src)
                /\ Slice(src, p, p + 4) = bytesNull) =>
                  (res.ret = p + 4 /\ res.v.Vt = V_NULL)
            /\ (p >= 0 /\ p + 4 <= Len(src)
                /\ Slice(src, p, p + 4) = bytesTrue) =>
                  (res.ret = p + 4 /\ res.v.Vt = V_TRUE)
            /\ (p >= 0 /\ p + 5 <= Len(src)
                /\ Slice(src, p, p + 5) = bytesFalse) =>
                  (res.ret = p + 5 /\ res.v.Vt = V_FALSE)

C4_Witness ==
    /\ res.op = "DecodeValue"
    /\ res.calls = <<"decodeInt64", "decodeFloat64">>
    /\ res.v.Vt = V_DOUBLE
    /\ res.ret = Len(src)
    /\ res.v.Dv # Float64Zero

(* C5: SkipValue returns either -EOF or -InvalidChar, or an end offset ret *)
(* with start < ret <= len(src).                                           *)
C5_SkipValueInBounds ==
    res.op = "SkipValue" =>
        \/ res.ret = -ERR_EOF
        \/ res.ret = -ERR_INVALID_CHAR
        \/ /\ res.ret >= 0
           /\ res.start >= pos
           /\ res.start < res.ret
           /\ res.ret <= Len(src)

C5_Witness ==
    /\ res.op = "SkipValue"
    /\ res.start >= 0
    /\ Len(src) >= res.start + 3
    /\ At(src, res.start) \in {DQUOTE, LBRACK, LBRACE}
    /\ src[Len(src)] = BSLASH
    /\ ScanPos(src, res.start, Len(src) - 1)
    /\ res.ret < 0

(* C6: skipString on an opening quote with no unescaped closing quote in   *)
(* the buffer returns -EOF.                                                *)
C6_UnterminatedIsEOF ==
    (/\ res.op = "skipString"
     /\ pos < Len(src)
     /\ At(src, pos) = DQUOTE
     /\ UnescapedQuotes(src, pos) = {})
        => res.ret = -ERR_EOF

(* C7: a span skipNumber accepts matches the number grammar.               *)
C7_AcceptedIsNumber ==
    (res.op = "skipNumber" /\ res.ret >= 0)
        => MatchesNumberGrammar(Slice(src, pos, res.ret))

(* C8, as stated: on an open byte whose pair is never closed in the        *)
(* buffer, also when the open byte is the last byte, skipPair returns      *)
(* -InvalidChar.                                                           *)
C8_UnbalancedIsInvalidChar ==
    (/\ res.op = "skipPair"
     /\ pos < Len(src)
     /\ At(src, pos) = res.lchar
     /\ ~Balanced(src, pos, res.lchar, res.rchar))
        => res.ret = -ERR_INVALID_CHAR

(* C8, amended: on an open byte followed by at least one byte whose pair   *)
(* is never closed in the buffer skipPair returns -InvalidChar; on an open *)
(* byte that is the last byte of the buffer it returns -EOF.               *)
C8_UnbalancedAmended ==
    res.op = "skipPair" =>
        /\ (/\ pos + 1 < Len(src)
            /\ At(src, pos) = res.lchar
            /\ ~Balanced(src, pos, res.lchar, res.rchar))
              => res.ret = -ERR_INVALID_CHAR
        /\ (pos + 1 = Len(src) /\ At(src, pos) = res.lchar)
              => res.ret = -ERR_EOF

C8_Witness ==
    /\ res.op = "skipPair"
    /\ pos + 3 < Len(src)
    /\ At(src, pos) = res.lchar
    /\ \E i \in (pos + 1)..(Len(src) - 1) :
          At(src, i) = res.rchar /\ InQuote(src, pos, i)
    /\ ~Balanced(src, pos, res.lchar, res.rchar)
    /\ res.ret = -ERR_INVALID_CHAR

(* C9: when skipString succeeds, its end offset is one past the first      *)
(* unescaped '"' after pos, and ep is -1 when the content holds no         *)
(* backslash and the offset of the first backslash otherwise; DecodeValue  *)
(* on a string reports that ep and the content start pos + 1.              *)
C9_StringEndAndEscape ==
    /\ (res.op = "skipString" /\ res.ret >= 0) =>
          /\ UnescapedQuotes(src, pos) # {}
          /\ res.ret = SetMin(UnescapedQuotes(src, pos)) + 1
          /\ LET bs == {i \in (pos + 1)..(res.ret - 2) : At(src, i) = BSLASH}
             IN  /\ res.ep = -1 <=> bs = {}
                 /\ bs # {} => res.ep = SetMin(bs)
    /\ (res.op = "DecodeValue" /\ res.v.Vt = V_STRING) =>
          LET p == SkipBlank(src, pos)
          IN  /\ UnescapedQuotes(src, p) # {}
              /\ res.ret = SetMin(UnescapedQuotes(src, p)) + 1
              /\ res.v.Ep = skipString(src, p).ep
              /\ res.v.Iv = Int64Of(p + 1)

(* C10: on a token whose digit run is outside the int64 range decodeInt64  *)
(* returns the offset past the run, value 0 and a range error, and         *)
(* DecodeValue returns that offset with an Integer state of value 0, the   *)
(* tag and value it returns for the literal 0.                             *)
C10_OverflowIsZero ==
    /\ (res.op = "decodeInt64" /\ OverflowToken(src, pos)) =>
          /\ res.ret = DigitRunEnd(src, AfterSign(src, pos))
          /\ res.v = Int64Zero
          /\ res.err = "ErrRange"
    /\ (res.op = "DecodeValue" /\ OverflowToken(src, SkipBlank(src, pos))) =>
          LET p == SkipBlank(src, pos)
              z == DecodeValue(<<DIGIT0>>, 0)
          IN  /\ res.ret = DigitRunEnd(src, AfterSign(src, p))
              /\ res.v.Vt = V_INTEGER
              /\ res.v.Iv = Int64Zero
              /\ res.v.Vt = z.v.Vt
              /\ res.v.Iv = z.v.Iv

C10_Witness ==
    /\ res.op = "DecodeValue"
    /\ OverflowToken(src, SkipBlank(src, pos))
    /\ At(src, SkipBlank(src, pos)) = MINUS
    /\ res.ret >= 20
    /\ res.v.Vt = V_INTEGER

=============================================================================
